---- MODULE Spec2Model ----
(***************************************************************************)
(* Push-to-talk recorder of src/voice.py: the keyboard listener thread     *)
(* (on_press / on_release), one recorder_thread per accepted press, one    *)
(* transcriber_thread per accepted release, and the audio callback that    *)
(* each started sounddevice stream runs on the audio thread.               *)
(*                                                                         *)
(* Session n is the n-th accepted press.  recorder_thread n opens stream   *)
(* n; transcriber_thread n is dispatched by the release that ends press n. *)
(* Every statement that reads or writes the shared globals (is_recording,  *)
(* stream, record_q, the file /tmp/voice_send.wav) is one step.            *)
(***************************************************************************)
EXTENDS Integers, Sequences, FiniteSets, TLC

\* ---------------------------------------------------------------- bounds
MaxSessions == 2
MaxChunks == 3
MaxWarnings == 1
\* a sample is the rational x / AmpScale; the samples run over
\* -MaxAmp/AmpScale .. MaxAmp/AmpScale
AmpScale == 100
MaxAmp == 150
\* line 64: the factor between the unit range and the 16-bit range
FullScale == 32767

\* np.clip(x, lo, hi)
Clip(x, lo, hi) == IF x < lo THEN lo ELSE IF x > hi THEN hi ELSE x

\* the integer part of a / b, b > 0: a float-to-integer cast drops the fraction
TruncDiv(a, b) == IF a >= 0 THEN a \div b ELSE -((-a) \div b)

\* a value stored in 16 bits, two's complement
Int16(v) == ((v + 32768) % 65536) - 32768

\* a conversion that scales the sample as it is
ToInt16NoClip(x) == Int16(TruncDiv(x * FullScale, AmpScale))

\* line 64 for one sample: np.int16(np.clip(x, -1, 1) * 32767)
ToInt16(x) ==
    Int16(TruncDiv(Clip(x, -AmpScale, AmpScale) * FullScale, AmpScale))

Sessions == 1..MaxSessions
\* size of the blocks the device delivers (blocksize=0: the host chooses it)
BlockSizes == {1024}
Keys == {"space", "other"}
None == 0

VARIABLES
    is_recording,   \* threading.Event, line 28
    stream,         \* global stream handle, line 29: None or a stream id
    record_q,       \* queue.Queue, line 27: sequence of chunks
    st,             \* PortAudio state of each sd.InputStream object
    cb,             \* position of each stream's callback invocation
    cbChunk,        \* indata.copy() a callback is about to put
    rpc,            \* position of each recorder_thread
    tpc,            \* position of each transcriber_thread
    frames,         \* local `frames` of each transcriber_thread
    out,            \* what each transcriber_thread reported
    calls,          \* transcriptions.create() calls of each transcriber_thread
    payload,        \* file content each transcriber_thread submitted
    path,           \* inode linked at /tmp/voice_send.wav, or None
    fdata,          \* content of each inode
    fh,             \* inode each transcriber_thread holds open
    wrote,          \* waveform each transcriber_thread wrote, or NoWave
    sess,           \* number of accepted presses so far
    pushed,         \* history: every chunk put on record_q, in order
    lastEv,         \* history: the last key event the listener handled
    warned,         \* status warnings the callbacks printed to stderr
    audio_f32,      \* samples handed to the conversion of line 64
    int16           \* samples the conversion of line 64 returned

vars == <<is_recording, stream, record_q, st, cb, cbChunk, rpc, tpc, frames,
          out, calls, payload, path, fdata, fh, wrote, sess, pushed, lastEv,
          warned, audio_f32, int16>>

NoChunk == [seq |-> 0, src |-> 0, sess |-> 0, len |-> 0, status |-> FALSE]
NoWave == [owner |-> 0, samples |-> 0]
NoEvent == [kind |-> "none", key |-> "none", taken |-> FALSE]
Event(kind, key, taken) == [kind |-> kind, key |-> key, taken |-> taken]

\* the globals of lines 27-29, no thread started, nothing printed
ProgInit ==
    /\ is_recording = FALSE
    /\ stream = None
    /\ record_q = <<>>
    /\ st = [s \in Sessions |-> "none"]
    /\ cb = [s \in Sessions |-> "idle"]
    /\ cbChunk = [s \in Sessions |-> NoChunk]
    /\ rpc = [n \in Sessions |-> "idle"]
    /\ tpc = [n \in Sessions |-> "idle"]
    /\ frames = [n \in Sessions |-> <<>>]
    /\ out = [n \in Sessions |-> "none"]
    /\ calls = [n \in Sessions |-> 0]
    /\ payload = [n \in Sessions |-> NoWave]
    /\ path = None
    /\ fdata = [i \in Sessions |-> NoWave]
    /\ fh = [n \in Sessions |-> None]
    /\ wrote = [n \in Sessions |-> NoWave]
    /\ sess = 0
    /\ pushed = <<>>
    /\ lastEv = NoEvent
    /\ warned = 0

\* the session machine: the sample values play no part in it
Init ==
    /\ ProgInit
    /\ audio_f32 = <<>>
    /\ int16 = <<>>

\* ------------------------------------------------------- keyboard hooks
\* an on_press that does not test the flag
OnPressNoFlagTest(key) ==
    IF key = "space"
    THEN /\ sess < MaxSessions
         /\ is_recording' = TRUE
         /\ sess' = sess + 1
         /\ rpc' = [rpc EXCEPT ![sess + 1] = "open"]
         /\ lastEv' = Event("press", key, ~is_recording)
         /\ UNCHANGED <<stream, record_q, st, cb, cbChunk, tpc, frames, out,
                        calls, payload, path, fdata, fh, wrote, pushed,
                        warned, audio_f32, int16>>
    ELSE /\ lastEv' = Event("press", key, FALSE)
         /\ UNCHANGED <<is_recording, stream, record_q, st, cb, cbChunk, rpc,
                        tpc, frames, out, calls, payload, path, fdata, fh,
                        wrote, sess, pushed, warned, audio_f32, int16>>

\* an on_press that waits for the transcription requests in flight
OnPressWaits(key) ==
    /\ \A n \in Sessions : tpc[n] # "create"
    /\ IF key = "space" /\ ~is_recording
       THEN /\ sess < MaxSessions
            /\ is_recording' = TRUE
            /\ sess' = sess + 1
            /\ rpc' = [rpc EXCEPT ![sess + 1] = "open"]
            /\ lastEv' = Event("press", key, TRUE)
            /\ UNCHANGED <<stream, record_q, st, cb, cbChunk, tpc, frames,
                           out, calls, payload, path, fdata, fh, wrote,
                           pushed, warned, audio_f32, int16>>
       ELSE /\ lastEv' = Event("press", key, FALSE)
            /\ UNCHANGED <<is_recording, stream, record_q, st, cb, cbChunk,
                           rpc, tpc, frames, out, calls, payload, path, fdata,
                           fh, wrote, sess, pushed, warned, audio_f32, int16>>

\* an on_press that does not look at the key
OnPressAnyKey(key) ==
    IF ~is_recording
    THEN /\ sess < MaxSessions
         /\ is_recording' = TRUE
         /\ sess' = sess + 1
         /\ rpc' = [rpc EXCEPT ![sess + 1] = "open"]
         /\ lastEv' = Event("press", key, TRUE)
         /\ UNCHANGED <<stream, record_q, st, cb, cbChunk, tpc, frames, out,
                        calls, payload, path, fdata, fh, wrote, pushed,
                        warned, audio_f32, int16>>
    ELSE /\ lastEv' = Event("press", key, FALSE)
         /\ UNCHANGED <<is_recording, stream, record_q, st, cb, cbChunk, rpc,
                        tpc, frames, out, calls, payload, path, fdata, fh,
                        wrote, sess, pushed, warned, audio_f32, int16>>

\* on_press, lines 86-89
OnPress(key) ==
    IF key = "space" /\ ~is_recording
    THEN /\ sess < MaxSessions
         /\ is_recording' = TRUE
         /\ sess' = sess + 1
         /\ rpc' = [rpc EXCEPT ![sess + 1] = "open"]
         /\ lastEv' = Event("press", key, TRUE)
         /\ UNCHANGED <<stream, record_q, st, cb, cbChunk, tpc, frames, out,
                        calls, payload, path, fdata, fh, wrote, pushed,
                        warned, audio_f32, int16>>
    ELSE /\ lastEv' = Event("press", key, FALSE)
         /\ UNCHANGED <<is_recording, stream, record_q, st, cb, cbChunk, rpc,
                        tpc, frames, out, calls, payload, path, fdata, fh,
                        wrote, sess, pushed, warned, audio_f32, int16>>

\* an on_release that does not test the flag
OnReleaseNoFlagTest(key) ==
    IF key = "space" /\ sess > 0
    THEN /\ is_recording' = FALSE
         /\ tpc' = [tpc EXCEPT ![sess] = "check"]
         /\ lastEv' = Event("release", key, is_recording)
         /\ UNCHANGED <<stream, record_q, st, cb, cbChunk, rpc, frames, out,
                        calls, payload, path, fdata, fh, wrote, sess, pushed,
                        warned, audio_f32, int16>>
    ELSE /\ lastEv' = Event("release", key, FALSE)
         /\ UNCHANGED <<is_recording, stream, record_q, st, cb, cbChunk, rpc,
                        tpc, frames, out, calls, payload, path, fdata, fh,
                        wrote, sess, pushed, warned, audio_f32, int16>>

\* on_release, lines 91-94
OnRelease(key) ==
    IF key = "space" /\ is_recording
    THEN /\ is_recording' = FALSE
         /\ tpc' = [tpc EXCEPT ![sess] = "check"]
         /\ lastEv' = Event("release", key, TRUE)
         /\ UNCHANGED <<stream, record_q, st, cb, cbChunk, rpc, frames, out,
                        calls, payload, path, fdata, fh, wrote, sess, pushed,
                        warned, audio_f32, int16>>
    ELSE /\ lastEv' = Event("release", key, FALSE)
         /\ UNCHANGED <<is_recording, stream, record_q, st, cb, cbChunk, rpc,
                        tpc, frames, out, calls, payload, path, fdata, fh,
                        wrote, sess, pushed, warned, audio_f32, int16>>

\* ------------------------------------------------------ recorder_thread
\* sd.InputStream(...), line 39-41: a new stream object, opened and not yet
\* started, is bound to the global `stream`.  The n-th recorder_thread makes
\* stream object n.  PortAudio may refuse the device (PortAudioError): the
\* thread dies and the global keeps its old value.
RecOpen(n) ==
    /\ rpc[n] = "open"
    /\ \E ok \in BOOLEAN :
         IF ok
         THEN /\ st' = [st EXCEPT ![n] = "open"]
              /\ stream' = n
              /\ rpc' = [rpc EXCEPT ![n] = "start"]
         ELSE /\ rpc' = [rpc EXCEPT ![n] = "crashed"]
              /\ UNCHANGED <<st, stream>>
    /\ UNCHANGED <<is_recording, record_q, cb, cbChunk, tpc, frames, out,
                   calls, payload, path, fdata, fh, wrote, sess, pushed,
                   lastEv, warned, audio_f32, int16>>

\* stream.start(), line 42, on whatever object the global names now.
\* sounddevice ignores paStreamIsNotStopped (start of a running stream is a
\* no-op) and raises on a closed stream; the device may also refuse to start.
RecStart(n) ==
    /\ rpc[n] = "start"
    /\ LET s == stream IN
       \E ok \in BOOLEAN :
         IF st[s] = "closed" \/ (~ok /\ st[s] # "active")
         THEN /\ rpc' = [rpc EXCEPT ![n] = "crashed"]
              /\ st' = st
         ELSE /\ st' = [st EXCEPT ![s] = "active"]
              /\ rpc' = [rpc EXCEPT ![n] = "done"]   \* line 43: print
    /\ UNCHANGED <<is_recording, stream, record_q, cb, cbChunk, tpc, frames,
                   out, calls, payload, path, fdata, fh, wrote, sess, pushed,
                   lastEv, warned, audio_f32, int16>>

\* ------------------------------------------------------- audio callback
InFlight == Cardinality({s \in Sessions : cb[s] = "put"})

\* a callback that goes on to line 38 whatever the flag says
CallbackBeginNoFlagTest(s) ==
    /\ st[s] = "active"
    /\ cb[s] = "idle"
    /\ Len(pushed) + InFlight < MaxChunks
    /\ \E status \in BOOLEAN, len \in BlockSizes :
         /\ status => warned < MaxWarnings
         /\ warned' = warned + (IF status THEN 1 ELSE 0)
         /\ cbChunk' = [cbChunk EXCEPT
                          ![s] = [seq |-> 0, src |-> s, sess |-> sess,
                                  len |-> len, status |-> status]]
    /\ cb' = [cb EXCEPT ![s] = "put"]
    /\ UNCHANGED <<is_recording, stream, record_q, st, rpc, tpc, frames, out,
                   calls, payload, path, fdata, fh, wrote, sess, pushed,
                   lastEv, audio_f32, int16>>

\* a callback that gives up its chunk when the device reports a status
CallbackBeginStatusDrops(s) ==
    /\ st[s] = "active"
    /\ cb[s] = "idle"
    /\ \E status \in BOOLEAN :
         /\ status => warned < MaxWarnings
         /\ warned' = warned + (IF status THEN 1 ELSE 0)
         /\ IF is_recording /\ ~status
            THEN /\ Len(pushed) + InFlight < MaxChunks
                 /\ \E len \in BlockSizes :
                      cbChunk' = [cbChunk EXCEPT
                                    ![s] = [seq |-> 0, src |-> s,
                                            sess |-> sess, len |-> len,
                                            status |-> status]]
                 /\ cb' = [cb EXCEPT ![s] = "put"]
            ELSE UNCHANGED <<cb, cbChunk>>
    /\ UNCHANGED <<is_recording, stream, record_q, st, rpc, tpc, frames, out,
                   calls, payload, path, fdata, fh, wrote, sess, pushed,
                   lastEv, audio_f32, int16>>

\* callback, lines 34-37: one invocation on a running stream.  A non-empty
\* status is printed to stderr (lines 35-36); then the flag is read, and when
\* it is set the invocation goes on to line 38 with its copy of indata.
CallbackBegin(s) ==
    /\ st[s] = "active"
    /\ cb[s] = "idle"
    /\ \E status \in BOOLEAN :
         /\ status => warned < MaxWarnings
         /\ warned' = warned + (IF status THEN 1 ELSE 0)
         /\ IF is_recording
            THEN /\ Len(pushed) + InFlight < MaxChunks
                 /\ \E len \in BlockSizes :
                      cbChunk' = [cbChunk EXCEPT
                                    ![s] = [seq |-> 0, src |-> s,
                                            sess |-> sess, len |-> len,
                                            status |-> status]]
                 /\ cb' = [cb EXCEPT ![s] = "put"]
            ELSE UNCHANGED <<cb, cbChunk>>
    /\ UNCHANGED <<is_recording, stream, record_q, st, rpc, tpc, frames, out,
                   calls, payload, path, fdata, fh, wrote, sess, pushed,
                   lastEv, audio_f32, int16>>

\* queue.Queue.put: append at the tail
QueuePut(q, c) == Append(q, c)

\* record_q.put(indata.copy()), line 38
CallbackPut(s) ==
    /\ cb[s] = "put"
    /\ LET c == [seq |-> Len(pushed) + 1, src |-> cbChunk[s].src,
                 sess |-> cbChunk[s].sess, len |-> cbChunk[s].len] IN
         /\ record_q' = QueuePut(record_q, c)
         /\ pushed' = Append(pushed, c)
    /\ cb' = [cb EXCEPT ![s] = "idle"]
    /\ cbChunk' = [cbChunk EXCEPT ![s] = NoChunk]
    /\ UNCHANGED <<is_recording, stream, st, rpc, tpc, frames, out, calls,
                   payload, path, fdata, fh, wrote, sess, lastEv, warned,
                   audio_f32, int16>>

\* --------------------------------------------------- transcriber_thread
\* a transcriber_thread that, finding no handle, skips line 50 only
TrCheckNoReturn(n) ==
    /\ tpc[n] = "check"
    /\ tpc' = [tpc EXCEPT ![n] = IF stream = None THEN "drain" ELSE "stop"]
    /\ UNCHANGED <<is_recording, stream, record_q, st, cb, cbChunk, rpc,
                   frames, out, calls, payload, path, fdata, fh, wrote, sess,
                   pushed, lastEv, warned, audio_f32, int16>>

\* `if stream is None: return`, lines 48-49
TrCheck(n) ==
    /\ tpc[n] = "check"
    /\ tpc' = [tpc EXCEPT ![n] = IF stream = None THEN "returned"
                                  ELSE "stop"]
    /\ UNCHANGED <<is_recording, stream, record_q, st, cb, cbChunk, rpc,
                   frames, out, calls, payload, path, fdata, fh, wrote, sess,
                   pushed, lastEv, warned, audio_f32, int16>>

\* Stream.stop(): Pa_StopStream returns once the pending callback has
\* finished; its error on a stream that is not running is ignored
\* (ignore_errors=True).
StopStream(state) == IF state = "active" THEN "stopped" ELSE state

\* Stream.close(): Pa_CloseStream; its error on a closed stream is ignored.
CloseStream(state) == "closed"

\* stream.stop(), line 50, on the object the global names now
TrStop(n) ==
    /\ tpc[n] = "stop"
    /\ cb[stream] = "idle"
    /\ st' = [st EXCEPT ![stream] = StopStream(st[stream])]
    /\ tpc' = [tpc EXCEPT ![n] = "close"]
    /\ UNCHANGED <<is_recording, stream, record_q, cb, cbChunk, rpc, frames,
                   out, calls, payload, path, fdata, fh, wrote, sess, pushed,
                   lastEv, warned, audio_f32, int16>>

\* stream.close(), line 50, on the object the global names now
TrClose(n) ==
    /\ tpc[n] = "close"
    /\ cb[stream] = "idle"
    /\ st' = [st EXCEPT ![stream] = CloseStream(st[stream])]
    /\ tpc' = [tpc EXCEPT ![n] = "drain"]
    /\ UNCHANGED <<is_recording, stream, record_q, cb, cbChunk, rpc, frames,
                   out, calls, payload, path, fdata, fh, wrote, sess, pushed,
                   lastEv, warned, audio_f32, int16>>

\* queue.Queue.empty()
QueueEmpty(q) == q = <<>>

\* `while not record_q.empty()`, line 54
TrDrainCheck(n) ==
    /\ tpc[n] = "drain"
    /\ tpc' = [tpc EXCEPT ![n] = IF QueueEmpty(record_q) THEN "frames"
                                  ELSE "get"]
    /\ UNCHANGED <<is_recording, stream, record_q, st, cb, cbChunk, rpc,
                   frames, out, calls, payload, path, fdata, fh, wrote, sess,
                   pushed, lastEv, warned, audio_f32, int16>>

\* a get() that takes the newest item
QueueGetNewest(q) == [item |-> q[Len(q)], rest |-> SubSeq(q, 1, Len(q) - 1)]

\* queue.Queue.get(): the item at the head, and the queue without it
QueueGet(q) == [item |-> Head(q), rest |-> Tail(q)]

\* frames.append(record_q.get()), line 55; get() blocks on an empty queue
TrGet(n) ==
    /\ tpc[n] = "get"
    /\ record_q # <<>>
    /\ frames' = [frames EXCEPT ![n] = Append(@, QueueGet(record_q).item)]
    /\ record_q' = QueueGet(record_q).rest
    /\ tpc' = [tpc EXCEPT ![n] = "drain"]
    /\ UNCHANGED <<is_recording, stream, st, cb, cbChunk, rpc, out, calls,
                   payload, path, fdata, fh, wrote, sess, pushed, lastEv,
                   warned, audio_f32, int16>>

\* number of samples of np.concatenate(frames).squeeze(), line 59
RECURSIVE SumLen(_)
SumLen(fs) == IF fs = <<>> THEN 0 ELSE Head(fs).len + SumLen(Tail(fs))

\* the waveform transcriber_thread n assembles from its frames, lines 59-64
Waveform(n, fs) == [owner |-> n, samples |-> SumLen(fs)]

\* a transcriber_thread that goes on to write without the test of line 56
TrFramesNoEmptyTest(n) ==
    /\ tpc[n] = "frames"
    /\ LET w == Waveform(n, frames[n])
           i == IF path = None THEN n ELSE path IN
         /\ path' = i
         /\ fdata' = [fdata EXCEPT ![i] = w]
         /\ wrote' = [wrote EXCEPT ![n] = w]
    /\ tpc' = [tpc EXCEPT ![n] = "client"]
    /\ UNCHANGED <<is_recording, stream, record_q, st, cb, cbChunk, rpc,
                   frames, out, calls, payload, fh, sess, pushed, lastEv,
                   warned, audio_f32, int16>>

\* lines 56-66: the empty check, then concatenate, print the peak, convert
\* and write(wav_path, FS, int16).  open(path, 'wb') truncates the inode the
\* path names, or links a new one.
TrFrames(n) ==
    /\ tpc[n] = "frames"
    /\ IF frames[n] = <<>>
       THEN /\ out' = [out EXCEPT ![n] = "no audio captured"]
            /\ tpc' = [tpc EXCEPT ![n] = "done"]
            /\ UNCHANGED <<path, fdata, wrote>>
       ELSE /\ LET w == Waveform(n, frames[n])
                   i == IF path = None THEN n ELSE path IN
                 /\ path' = i
                 /\ fdata' = [fdata EXCEPT ![i] = w]
                 /\ wrote' = [wrote EXCEPT ![n] = w]
            /\ tpc' = [tpc EXCEPT ![n] = "client"]
            /\ out' = out
    /\ UNCHANGED <<is_recording, stream, record_q, st, cb, cbChunk, rpc,
                   frames, calls, payload, fh, sess, pushed, lastEv,
                   warned, audio_f32, int16>>

\* wav_path.unlink(missing_ok=True), line 83
Unlink(p) == None

\* client = OpenAI(), line 69, outside the try: the constructor raises
\* OpenAIError when no API key is configured, and the thread dies at once.
\* Then wav_path.open("rb"), line 71: FileNotFoundError is no OpenAIError, so
\* it passes the except clause, runs the finally clause and kills the thread.
TrOpen(n) ==
    /\ tpc[n] = "client"
    /\ \E ok \in BOOLEAN :
         IF ~ok
         THEN /\ tpc' = [tpc EXCEPT ![n] = "openai_error"]
              /\ UNCHANGED <<path, fh>>
         ELSE IF path = None
         THEN /\ path' = Unlink(path)
              /\ tpc' = [tpc EXCEPT ![n] = "file_not_found"]
              /\ fh' = fh
         ELSE /\ fh' = [fh EXCEPT ![n] = path]
              /\ tpc' = [tpc EXCEPT ![n] = "create"]
              /\ path' = path
    /\ UNCHANGED <<is_recording, stream, record_q, st, cb, cbChunk, rpc,
                   frames, out, calls, payload, fdata, wrote, sess, pushed,
                   lastEv, warned, audio_f32, int16>>

\* what lines 79 and 81 print for the outcome of the request
Report(ok) == IF ok THEN "transcript" ELSE "warning"

\* client.audio.transcriptions.create(...), lines 72-81: one request with the
\* content of the open file; it returns (line 79) or raises OpenAIError
\* (line 81).  The with block closes the file.
TrCreate(n) ==
    /\ tpc[n] = "create"
    /\ calls' = [calls EXCEPT ![n] = @ + 1]
    /\ payload' = [payload EXCEPT ![n] = fdata[fh[n]]]
    /\ \E ok \in BOOLEAN : out' = [out EXCEPT ![n] = Report(ok)]
    /\ fh' = [fh EXCEPT ![n] = None]
    /\ tpc' = [tpc EXCEPT ![n] = "unlink"]
    /\ UNCHANGED <<is_recording, stream, record_q, st, cb, cbChunk, rpc,
                   frames, path, fdata, wrote, sess, pushed, lastEv,
                   warned, audio_f32, int16>>

\* finally: wav_path.unlink(missing_ok=True), lines 82-83
TrUnlink(n) ==
    /\ tpc[n] = "unlink"
    /\ path' = Unlink(path)
    /\ tpc' = [tpc EXCEPT ![n] = "done"]
    /\ UNCHANGED <<is_recording, stream, record_q, st, cb, cbChunk, rpc,
                   frames, out, calls, payload, fdata, fh, wrote, sess,
                   pushed, lastEv, warned, audio_f32, int16>>

\* ------------------------------------------------------------ the system
Next ==
    \/ \E key \in Keys : OnPress(key)
    \/ \E key \in Keys : OnRelease(key)
    \/ \E n \in Sessions : RecOpen(n)
    \/ \E n \in Sessions : RecStart(n)
    \/ \E s \in Sessions : CallbackBegin(s)
    \/ \E s \in Sessions : CallbackPut(s)
    \/ \E n \in Sessions : TrCheck(n)
    \/ \E n \in Sessions : TrStop(n)
    \/ \E n \in Sessions : TrClose(n)
    \/ \E n \in Sessions : TrDrainCheck(n)
    \/ \E n \in Sessions : TrGet(n)
    \/ \E n \in Sessions : TrFrames(n)
    \/ \E n \in Sessions : TrOpen(n)
    \/ \E n \in Sessions : TrCreate(n)
    \/ \E n \in Sessions : TrUnlink(n)

Spec == Init /\ [][Next]_vars

TypeOK ==
    /\ is_recording \in BOOLEAN
    /\ stream \in {None} \cup Sessions
    /\ sess \in 0..MaxSessions
    /\ Len(pushed) <= MaxChunks
    /\ warned \in 0..MaxWarnings

\* ------------------------------------------------------------ vocabulary
Range(f) == {f[i] : i \in DOMAIN f}

\* the transcriber_thread has ended: by line 49, by running to its end, or
\* by an exception leaving it
TrFinished(n) == tpc[n] \in {"returned", "done", "openai_error",
                             "file_not_found"}

\* the transcriber_thread is in, or past, the loop of lines 54-55
TrDraining(n) == tpc[n] \in {"drain", "get"}
TrDrained(n) == tpc[n] \in {"frames", "client", "create", "unlink", "done",
                            "openai_error", "file_not_found"}

\* the chunks whose callback saw the flag set during the key hold of session n
SessChunks(n) == SelectSeq(pushed, LAMBDA c : c.sess = n)

\* streams PortAudio still holds: opened and not closed
OpenStreams == {s \in Sessions : st[s] \in {"open", "active", "stopped"}}

\* everything but the record of the last key event
progState == <<is_recording, stream, record_q, st, cb, cbChunk, rpc, tpc,
               frames, out, calls, payload, path, fdata, fh, wrote, sess,
               pushed, warned, audio_f32, int16>>

\* ---------------------------------------------------------------- claims

\* C1: every chunk in the waveform assembled by the stop-worker of session n
\* was pushed by the stream opened for session n during session n's key
\* hold; no chunk of another session is drained into it.
C1_SessionsNeverInterleave ==
    \A n \in Sessions : \A i \in 1..Len(frames[n]) :
        frames[n][i].src = n /\ frames[n][i].sess = n

\* C2: every stream a start-worker opens is closed by the stop-worker of the
\* same session: no stream of session n is open once the stop-worker of
\* session n has finished, and at most one stream is open at a time.
C2_StreamClosedBySameSession ==
    /\ \A n \in Sessions : TrFinished(n) => n \notin OpenStreams
    /\ Cardinality(OpenStreams) <= 1

\* C3: when the stop-worker of session n drains the Frame Buffer, the stream
\* opened for session n is already stopped, and once the drain is over no
\* chunk of session n is pushed any more.
C3_DrainAfterStop ==
    \A n \in Sessions :
        /\ (TrDraining(n) \/ TrDrained(n)) =>
               (st[n] \in {"stopped", "closed"} /\ cb[n] = "idle")
        /\ TrDrained(n) =>
               /\ \A i \in 1..Len(record_q) : record_q[i].sess # n
               /\ \A s \in Sessions : cb[s] = "put" => cbChunk[s].sess # n

\* a sequence of chunks is in the order its chunks were pushed, no chunk twice
InPushOrder(q) ==
    \A i, j \in 1..Len(q) : i < j => q[i].seq < q[j].seq

\* the chunks the transcriber_threads have taken off the queue
Taken == UNION {Range(frames[n]) : n \in Sessions}

C4_Inv ==
    \* each drain returns its chunks in the order pushed
    /\ \A n \in Sessions : InPushOrder(frames[n])
    /\ InPushOrder(record_q)
    \* no chunk is dropped or invented: every chunk pushed is either still
    \* queued or in the frames of exactly one stop-worker
    /\ Range(pushed) = Taken \cup Range(record_q)
    /\ Taken \cap Range(record_q) = {}
    /\ \A m, n \in Sessions :
           m # n => Range(frames[m]) \cap Range(frames[n]) = {}
    \* what is still queued was pushed after everything already drained
    /\ \A c \in Taken : \A i \in 1..Len(record_q) : c.seq < record_q[i].seq

\* the step that leaves the loop of lines 54-55 leaves the queue empty
C4_DrainLeavesEmpty ==
    \A n \in Sessions :
        (tpc[n] = "drain" /\ tpc'[n] = "frames") =>
            (record_q = <<>> /\ record_q' = <<>>)

\* C4: the drain of stop() returns every pushed chunk exactly once, in the
\* order pushed, none dropped or reordered; the drain ends with the Frame
\* Buffer empty, so a drain that follows it returns nothing.
C4_DrainFifo == [](C4_Inv) /\ [][C4_DrainLeavesEmpty]_vars

\* a stop-worker has drained all the chunks of a three-chunk session, in
\* order, and the stop-worker of another session has drained nothing
C4_Witness ==
    \E n, m \in Sessions :
        /\ tpc[n] = "frames" /\ frames[n] = pushed /\ Len(pushed) = 3
        /\ m # n /\ tpc[m] = "done" /\ frames[m] = <<>>
        /\ out[m] = "no audio captured"

\* the recorder_threads and transcriber_threads dispatched so far
Started == {n \in Sessions : rpc[n] # "idle"}
Stopped == {n \in Sessions : tpc[n] # "idle"}

\* a step of the listener that handles a key event of the given kind
KeyStep(kind, key) ==
    lastEv' # lastEv /\ lastEv'.kind = kind /\ lastEv'.key = key

C5_PressStep ==
    KeyStep("press", "space") =>
        IF is_recording
        THEN \* a press while Active: nothing changes, no worker dispatched
             /\ ~lastEv'.taken
             /\ UNCHANGED progState
        ELSE \* a press while Idle: the flag goes up, one start-worker
             /\ lastEv'.taken
             /\ is_recording'
             /\ rpc[sess + 1] = "idle"
             /\ rpc' = [rpc EXCEPT ![sess + 1] = "open"]
             /\ tpc' = tpc

\* C5: a press of the designated key while the flag is false sets the flag
\* and dispatches exactly one start-worker; a press while the flag is true
\* changes nothing and dispatches no worker, so between two releases there
\* is exactly one start().
C5_PressIdempotent ==
    /\ [](Cardinality(Started) =
              Cardinality(Stopped) + (IF is_recording THEN 1 ELSE 0))
    /\ [][C5_PressStep]_vars

\* a second press has been handled while the first start-worker is the only
\* one dispatched
C5_Witness ==
    /\ lastEv = Event("press", "space", FALSE)
    /\ is_recording
    /\ Started = {1} /\ Stopped = {}

C6_ReleaseStep ==
    KeyStep("release", "space") =>
        IF is_recording
        THEN \* a release while Active: the flag goes down, one stop-worker
             /\ lastEv'.taken
             /\ ~is_recording'
             /\ tpc[sess] = "idle"
             /\ tpc' = [tpc EXCEPT ![sess] = "check"]
             /\ rpc' = rpc
        ELSE \* a release while Idle: nothing changes, no worker dispatched
             /\ ~lastEv'.taken
             /\ UNCHANGED progState

\* C6: a release of the designated key while the flag is true clears the
\* flag and dispatches exactly one stop-worker; a release while the flag is
\* false (also in the initial state) changes nothing and dispatches no
\* worker, so each accepted press gets exactly one stop().
C6_ReleaseIdempotent ==
    /\ [](Stopped \subseteq Started)
    /\ [](~is_recording => Stopped = Started)
    /\ [][C6_ReleaseStep]_vars

\* a second release has been handled after the release that dispatched the
\* one stop-worker
C6_Witness ==
    /\ lastEv = Event("release", "space", FALSE)
    /\ ~is_recording
    /\ Started = {1} /\ Stopped = {1}

C8_OneCallPerSession ==
    \A n \in Sessions :
        (TrFinished(n) /\ SessChunks(n) # <<>>) =>
            /\ wrote[n] = Waveform(n, SessChunks(n))
            /\ calls[n] = 1
            /\ payload[n] = wrote[n]

\* C9: a failure of the transcription call never leaves the stop-worker as
\* an exception, and a failed call is reported by one warning, after one
\* request, without a transcript.
C9_ServiceFailureCaught ==
    \A n \in Sessions :
        /\ tpc[n] # "openai_error"
        /\ out[n] = "warning" => (calls[n] = 1 /\ tpc[n] \in {"unlink", "done"})

\* C10: once a stop-worker that wrote the temporary file has finished, the
\* file it wrote is not on the filesystem.
C10_TempFileRemoved ==
    \A n \in Sessions :
        (TrFinished(n) /\ wrote[n] # NoWave) =>
            ~(path # None /\ fdata[path].owner = n)

\* C11: each stop-worker submits its own session's waveform, and the file
\* a stop-worker has written and not yet submitted is neither overwritten
\* nor deleted by another stop-worker.
C11_OwnWaveformSubmitted ==
    \A n \in Sessions :
        /\ calls[n] >= 1 => payload[n] = wrote[n]
        /\ tpc[n] = "client" => (path # None /\ fdata[path] = wrote[n])
        /\ tpc[n] = "create" => fdata[fh[n]] = wrote[n]
        /\ tpc[n] # "file_not_found"

\* C12: when the input stream of a session cannot be opened or started, the
\* stop-worker of that session attempts no transcription, and once the key
\* is released the controller is Idle and takes the next press.
C12_DeviceErrorAborts ==
    \A n \in Sessions :
        rpc[n] = "crashed" =>
            /\ wrote[n] = NoWave /\ calls[n] = 0
            /\ tpc[n] # "idle" =>
                   (is_recording <=> (sess > n /\ tpc[sess] = "idle"))

\* the step of a stop-worker that runs lines 48-49 with no handle set
C13_NoStreamStep ==
    \A n \in Sessions :
        (tpc[n] = "check" /\ tpc'[n] # "check" /\ stream = None) =>
            /\ tpc' = [tpc EXCEPT ![n] = "returned"]
            /\ UNCHANGED <<is_recording, stream, record_q, st, cb, cbChunk,
                           rpc, frames, out, calls, payload, path, fdata, fh,
                           wrote, sess, pushed, warned, audio_f32, int16>>

\* C13: a stop-worker that runs while the stream handle has never been set
\* is a no-op: it leaves the Frame Buffer, the Recording State flag and the
\* filesystem unchanged, prints nothing and does not invoke the
\* Transcription Client.
C13_StopWithoutStreamNoOp ==
    /\ [](\A n \in Sessions :
              tpc[n] = "returned" =>
                  /\ out[n] = "none" /\ calls[n] = 0
                  /\ wrote[n] = NoWave /\ frames[n] = <<>>)
    /\ [][C13_NoStreamStep]_vars

\* a stop-worker has returned and the handle is still unset
C13_Witness ==
    \E n \in Sessions : tpc[n] = "returned" /\ stream = None

\* a key event changes the flag and dispatches a worker, nothing else
C14_KeyStep ==
    lastEv' # lastEv =>
        UNCHANGED <<stream, record_q, st, cb, cbChunk, frames, out, calls,
                    payload, path, fdata, fh, wrote, pushed,
                    warned, audio_f32, int16>>

\* C14: the press and release handlers never wait for session work: they
\* can run in every state, also while a transcription request of an earlier
\* session is in flight, and they touch only the flag and the worker
\* dispatch.
C14_ListenerNeverBlocked ==
    /\ [](/\ ENABLED OnRelease("space")
          /\ ENABLED OnRelease("other")
          /\ ENABLED OnPress("other")
          /\ (is_recording \/ sess < MaxSessions) => ENABLED OnPress("space"))
    /\ [][C14_KeyStep]_vars

\* the press of session 2 has been taken, its start-worker has not run yet,
\* and the request of session 1 is in flight
C14_Witness ==
    /\ tpc[1] = "create"
    /\ lastEv = Event("press", "space", TRUE)
    /\ sess = 2 /\ rpc[2] = "open"

\* C17: a key event for a key other than the designated key leaves the
\* flag, the stream handle and the Frame Buffer unchanged and dispatches no
\* worker, in the Idle and in the Active state.
C17_OtherKeyIgnored ==
    [][(lastEv' # lastEv /\ lastEv'.key = "other") =>
           (~lastEv'.taken /\ UNCHANGED progState)]_vars

\* a press of another key has been handled while Active, after a session
\* that was started from Idle
C17_Witness ==
    /\ lastEv = Event("press", "other", FALSE)
    /\ is_recording /\ sess = 2

\* the outcomes a stop-worker reports
Outcomes == {"no audio captured", "transcript", "warning"}

\* C19: the stop-worker of every pressed and released session ends having
\* reported exactly one of "no audio captured", a transcript, or a service
\* warning.
C19_OneOutcomePerSession ==
    \A n \in Sessions : TrFinished(n) => out[n] \in Outcomes

\* no start-worker and no stop-worker is still running
WorkersDone ==
    \A n \in Sessions :
        /\ rpc[n] \in {"idle", "done", "crashed"}
        /\ tpc[n] = "idle" \/ TrFinished(n)

Quiescent == ~is_recording /\ WorkersDone

\* C20: in every quiescent state the Frame Buffer is empty.
C20_QuiescentBufferEmpty == Quiescent => record_q = <<>>

\* a stop-worker is blocked in record_q.get() for good: the queue is empty,
\* no stream runs and every other worker has ended
BlockedInGet ==
    \E n \in Sessions :
        /\ tpc[n] = "get" /\ record_q = <<>>
        /\ \A s \in Sessions : st[s] # "active" /\ rpc[s] \in {"done", "crashed"}
        /\ \A m \in Sessions : m # n => TrFinished(m)

\* a step that puts a chunk on the Frame Buffer
C16_PushStep ==
    /\ \A s \in Sessions :
           (cb[s] = "idle" /\ cb'[s] = "put") =>
               (is_recording /\ cbChunk'[s].sess = sess /\ sess >= 1)
    /\ record_q' # record_q /\ Len(record_q') > Len(record_q) =>
           \E s \in Sessions :
               /\ cb[s] = "put" /\ cb'[s] = "idle"
               /\ record_q' = Append(record_q, pushed'[Len(pushed')])
               /\ pushed'[Len(pushed')].src = s
               /\ pushed'[Len(pushed')].sess = cbChunk[s].sess

\* C16: the audio callback pushes a chunk only when its invocation saw the
\* Recording State flag set: every push comes from an invocation that read
\* the flag as true, an invocation that reads it as false leaves the Frame
\* Buffer unchanged, and every chunk in a waveform was delivered during a
\* key hold.
C16_PushOnlyWhileRecording ==
    /\ [](\A n \in Sessions : \A i \in 1..Len(frames[n]) :
              frames[n][i].sess \in 1..sess)
    /\ [][C16_PushStep]_vars

\* a stream is running while the controller is Idle, after a chunk was
\* pushed and drained: its callback is being invoked and pushes nothing
C16_Witness ==
    \E s \in Sessions :
        /\ st[s] = "active" /\ cb[s] = "idle" /\ ~is_recording
        /\ ENABLED CallbackBegin(s)
        /\ record_q = <<>> /\ Len(pushed) >= 1

\* C18: a callback invoked with a non-empty status prints its warning and,
\* while the Recording State flag is true, still goes on to push its chunk:
\* the step that prints the warning takes one invocation from idle to the
\* put of line 38 with the chunk it was handed, that put can always be taken
\* and appends the chunk to the Frame Buffer, and neither step stops or
\* closes a stream.
C18_StatusStep ==
    /\ (warned' # warned /\ is_recording) =>
           /\ warned' = warned + 1
           /\ st' = st /\ stream' = stream /\ is_recording'
           /\ \E s \in Sessions :
                /\ st[s] = "active"
                /\ cb[s] = "idle" /\ cb'[s] = "put"
                /\ cbChunk'[s].status
    /\ \A s \in Sessions :
           (cb[s] = "put" /\ cbChunk[s].status /\ cb'[s] # "put") =>
               /\ Len(record_q') = Len(record_q) + 1
               /\ record_q'[Len(record_q')].src = s
               /\ record_q'[Len(record_q')].sess = cbChunk[s].sess
               /\ record_q'[Len(record_q')].len = cbChunk[s].len
               /\ st' = st /\ stream' = stream

C18_StatusDoesNotStopCapture ==
    /\ [](\A s \in Sessions :
              /\ (st[s] = "active" /\ cb[s] = "idle" /\ is_recording
                    /\ warned < MaxWarnings
                    /\ Len(pushed) + InFlight < MaxChunks)
                     => ENABLED (CallbackBegin(s) /\ warned' # warned
                                   /\ cb'[s] = "put")
              /\ (cb[s] = "put" /\ cbChunk[s].status)
                     => (st[s] = "active" /\ ENABLED CallbackPut(s)))
    /\ [][C18_StatusStep]_vars

C18_Witness ==
    \E s \in Sessions :
        /\ warned = 1
        /\ is_recording
        /\ st[s] = "active"
        /\ cb[s] = "put"
        /\ cbChunk[s].status
        /\ ENABLED CallbackPut(s)

\* ------------------------------------------------------- quantization
\* the conversion of lines 63-66 on its own: one waveform of one sample,
\* of every amplitude in -MaxAmp/AmpScale .. MaxAmp/AmpScale, is converted
QuantInit ==
    /\ ProgInit
    /\ audio_f32 \in {<<x>> : x \in -MaxAmp..MaxAmp}
    /\ int16 = <<>>

\* line 64: int16 = np.int16(np.clip(audio_f32, -1, 1) * 32767)
Convert ==
    /\ int16 = <<>>
    /\ int16' = [i \in DOMAIN audio_f32 |-> ToInt16(audio_f32[i])]
    /\ UNCHANGED <<is_recording, stream, record_q, st, cb, cbChunk, rpc, tpc,
                   frames, out, calls, payload, path, fdata, fh, wrote, sess,
                   pushed, lastEv, warned, audio_f32>>

QuantNext == Convert

SpecQuant == QuantInit /\ [][QuantNext]_vars

Abs(v) == IF v < 0 THEN -v ELSE v

\* C15: a sample above 1 becomes 32767 and a sample below -1 becomes -32767,
\* no sample leaves -32767..32767 (none wraps around the 16-bit range), and
\* for a sample within [-1, 1] the result divided by 32767 is within one
\* quantization step, 1/32767, of the sample.
C15_QuantizationClamps ==
    int16 # <<>> =>
        /\ Len(int16) = Len(audio_f32)
        /\ \A i \in DOMAIN int16 :
             LET x == audio_f32[i]
                 q == int16[i] IN
               /\ x > AmpScale => q = FullScale
               /\ x < -AmpScale => q = -FullScale
               /\ q \in -FullScale..FullScale
               /\ Abs(x) <= AmpScale =>
                      Abs(q * AmpScale - x * FullScale) <= AmpScale

C15_Witness ==
    /\ int16 = <<FullScale>>
    /\ audio_f32[1] > AmpScale

====
